---- MODULE Spec2Model ----
(***************************************************************************)
(* Model of src/src/App.tsx: the signaling-driven peer connection          *)
(* lifecycle (peer list, share request, createPeerConnection, startCall,   *)
(* offer / answer handling) and the data-channel protocol layered on top   *)
(* (chat, chunked file transfer).                                          *)
(*                                                                         *)
(* Every event handler of the component is one action.  A handler that     *)
(* awaits (getDisplayMedia, setLocalDescription, setRemoteDescription,     *)
(* file.arrayBuffer) is cut at the await: the part before it belongs to    *)
(* the handler's action, the continuation is an action of its own that     *)
(* consumes a pending task.                                                *)
(*                                                                         *)
(* A React render closes over the state values of that render.  A handler  *)
(* stored on an object (dc.onmessage, pc.ondatachannel) keeps the value of *)
(* receivedFileMeta of the render it was taken from; the model records     *)
(* that captured value with the object (field meta / pcMeta).              *)
(***************************************************************************)
EXTENDS Integers, Sequences, FiniteSets, Bags, TLC

\* ---------------------------------------------------------------- bounds
MaxShare == 1      \* share requests issued in one run
MaxChans == 3      \* data channel objects created in one run
MaxOffersIn == 1   \* offers each remote participant sends us
MaxDupJoin == 2    \* calls handleUserConnected makes to one participant
MaxFrames == 3     \* binary frames received in one run
MaxLog == 3        \* lines kept in the chat log
MaxSends == 2      \* sendMessage / sendFile invocations in one run
MaxCalls == 2      \* startCall invocations made on their own per participant
MaxCands == 1      \* ice-candidate messages received in one run

\* ------------------------------------------------------- program constants
CHUNK_SIZE == 16 * 1024

\* ------------------------------------------------------------ value sets
Ids == {"A", "B"}              \* remote participant ids
SelfId == "Self"               \* socket.id of the local participant
Undefined == "undefined"       \* payload.callerId of a message without one
NullMeta == [name |-> "null", size |-> 0]
\* the file-meta frames a peer announces
Metas == {[name |-> "f", size |-> 2], [name |-> "g", size |-> 1]}
NullLink == [name |-> "null", blob |-> <<>>]

VARIABLES
  joinedRoom,            \* joinedRoom (socket connected, room joined)
  peersRef,              \* peersRef.current : sequence of ids
  isSharingRef,          \* isSharingRef.current
  localStream,           \* localStream.current : 0 = null, else a stream number
  shareReqs,             \* startScreenShare calls awaiting getDisplayMedia
  nStreams,              \* streams acquired so far
  pcKeys,                \* peerConnections : keys in insertion order
  signalingState,        \* pc.signalingState per key
  senders,               \* streams whose tracks were added to the pc
  pcMeta,                \* receivedFileMeta seen by pc.ondatachannel's handler
  constructed,           \* number of RTCPeerConnection objects built per id
  chans,                 \* every RTCDataChannel object in creation order
  dcKeys,                \* dataChannels : keys in insertion order
  dataChannels,          \* dataChannels : id -> index into chans (0 = none)
  tasks,                 \* pending continuations (bag)
  callCount,             \* startCall invocations per id
  ucCalls,               \* startCall invocations made by handleUserConnected
  everKnown,             \* ids that were in peersRef at some time
  offerOut,              \* offers emitted and not yet answered by the target
  offersIn,              \* offers received per caller
  established,           \* a negotiation with the peer has completed
  inPending,             \* remote channels negotiated, not yet announced
  receivedFileMeta,      \* React state receivedFileMeta
  receivedFileChunksRef, \* receivedFileChunksRef.current
  downloadLink,          \* React state downloadLink
  messages,              \* React state messages
  messageInput,          \* React state messageInput
  fileTasks,             \* sendFile calls awaiting file.arrayBuffer()
  sendCount,             \* sendMessage / sendFile invocations so far
  framesIn,              \* binary frames received so far
  shareFailed,           \* some getDisplayMedia call has been rejected
  iceRuns,               \* handleNewICECandidateMsg calls awaiting addIceCandidate
  candidates,            \* remote candidates each connection has taken
  xfer,                  \* history of the inbound transfer announced last:
                         \* its file-meta, the unfinished one it replaced,
                         \* the binary frames since, the completions fired
                         \* since and the name in the last of them
  last                   \* the handler that ran last and what it did

memberVars == <<joinedRoom, peersRef>>
shareVars == <<isSharingRef, localStream, shareReqs, nStreams>>
connVars == <<pcKeys, signalingState, senders, pcMeta, constructed, chans,
              dcKeys, dataChannels, tasks, callCount>>
netVars == <<offerOut, offersIn, established, inPending>>
recvVars == <<receivedFileMeta, receivedFileChunksRef, downloadLink, messages>>
sendVars == <<messageInput, fileTasks, sendCount>>
histVars == <<ucCalls, everKnown, framesIn, xfer, shareFailed>>
iceVars == <<iceRuns, candidates>>
vars == <<memberVars, shareVars, connVars, netVars, recvVars, sendVars, histVars,
          iceVars, last>>

\* ---------------------------------------------------------------- helpers
Range(s) == {s[i] : i \in 1..Len(s)}

Contains(s, x) == \E i \in 1..Len(s) : s[i] = x

RECURSIVE FilterSeq(_, _)
\* Array.prototype.filter(x => x # drop)
FilterSeq(s, drop) ==
  IF s = <<>> THEN <<>>
  ELSE IF Head(s) = drop THEN FilterSeq(Tail(s), drop)
       ELSE <<Head(s)>> \o FilterSeq(Tail(s), drop)

\* sequences over S without repetition, of length at most n
RECURSIVE NoDupSeqs(_, _)
NoDupSeqs(S, n) ==
  IF n = 0 THEN {<<>>}
  ELSE {<<>>} \cup {<<x>> \o t : x \in S, t \in NoDupSeqs(S, n - 1)}

InjSeqs(S, n) == {s \in NoDupSeqs(S, n) : Cardinality(Range(s)) = Len(s)}

\* what a handler did: op names it, id / ids / n are its arguments, ok tells
\* whether it took effect, alert is the text it showed with alert() and
\* status the text it passed to setStatus ("" = none)
EvS(op, id, ids, n, ok, alert, status) ==
  [op |-> op, id |-> id, ids |-> ids, n |-> n, ok |-> ok, alert |-> alert,
   status |-> status]

EvA(op, id, ids, n, ok, alert) == EvS(op, id, ids, n, ok, alert, "")

Ev(op, id, ids, n, ok) == EvA(op, id, ids, n, ok, "")

\* a handler none of the properties below needs to recognise afterwards
Quiet == Ev("-", "", <<>>, 0, FALSE)

\* the connection store a handler works on
Cur == [keys |-> pcKeys, sig |-> signalingState, snd |-> senders,
        pmeta |-> pcMeta, ctor |-> constructed, chans |-> chans,
        dkeys |-> dcKeys, dmap |-> dataChannels, tasks |-> tasks,
        calls |-> callCount]

Commit(S) ==
  /\ pcKeys' = S.keys
  /\ signalingState' = S.sig
  /\ senders' = S.snd
  /\ pcMeta' = S.pmeta
  /\ constructed' = S.ctor
  /\ chans' = S.chans
  /\ dcKeys' = S.dkeys
  /\ dataChannels' = S.dmap
  /\ tasks' = S.tasks
  /\ callCount' = S.calls

\* a pending continuation: k names it, id is the connection it works on;
\* for an answer, from is the participant that produced it and how tells how
\* the connection was found ("by-id", or by the fallback: "only" when a
\* single connection was in have-local-offer, "first" when several were)
Task(k, id, from, how) == [k |-> k, id |-> id, from |-> from, how |-> how]

AddTask(S, t) == [S EXCEPT !.tasks = @ (+) SetToBag({t})]

\* ---------------------------------------------------- createPeerConnection
\* A variant that never looks the id up and always builds a new object.
CreatePeerConnectionAlways(S, id, meta) ==
  [S EXCEPT !.keys = IF Contains(@, id) THEN @ ELSE Append(@, id),
            !.sig[id] = "stable",
            !.snd[id] = {},
            !.pmeta[id] = meta,
            !.ctor[id] = @ + 1]

\* createPeerConnection(targetUserId), called from a render whose
\* receivedFileMeta is meta: the store after the call.
CreatePeerConnection(S, id, meta) ==
  IF Contains(S.keys, id)
    THEN S
    ELSE [S EXCEPT !.keys = Append(@, id),
                   !.sig[id] = "stable",
                   !.snd[id] = {},
                   !.pmeta[id] = meta,
                   !.ctor[id] = @ + 1]

\* ---------------------------------------------------------------- startCall
NewChannel(id, kind, rs, meta) ==
  [peer |-> id, kind |-> kind, readyState |-> rs, meta |-> meta, out |-> <<>>]

\* dataChannels.current.set(id, channel object number c)
SetChannel(S, id, c) ==
  [S EXCEPT !.dkeys = IF Contains(@, id) THEN @ ELSE Append(@, id),
            !.dmap[id] = c]

\* A variant without the check of localStream.current.
StartCallUnchecked(S, id, meta, stream) ==
  LET S0 == [S EXCEPT !.calls[id] = @ + 1]
      S1 == CreatePeerConnection(S0, id, meta)
  IN IF stream \in S1.snd[id]
       THEN S1
       ELSE
         LET S2 == [S1 EXCEPT !.snd[id] = @ \cup {stream},
                              !.chans = Append(@, NewChannel(id, "out", "connecting", meta))]
             S3 == SetChannel(S2, id, Len(S2.chans))
         IN AddTask(S3, Task("setLocalOffer", id, SelfId, ""))

\* The part of startCall(targetUserId) that runs before its first await,
\* called from a render whose receivedFileMeta is meta, with
\* localStream.current = stream.
StartCall(S, id, meta, stream) ==
  LET S0 == [S EXCEPT !.calls[id] = @ + 1] IN
  IF stream = 0 THEN S0
  ELSE
    LET S1 == CreatePeerConnection(S0, id, meta) IN
    IF stream \in S1.snd[id]
      THEN S1   \* pc.addTrack throws: the track already has a sender
      ELSE
        LET S2 == [S1 EXCEPT !.snd[id] = @ \cup {stream},
                             !.chans = Append(@, NewChannel(id, "out", "connecting", meta))]
            S3 == SetChannel(S2, id, Len(S2.chans))
        IN AddTask(S3, Task("setLocalOffer", id, SelfId, ""))

RECURSIVE StartCalls(_, _, _, _)
\* peersToCall.forEach(userId => startCall(userId))
StartCalls(S, ids, meta, stream) ==
  IF ids = <<>> THEN S
  ELSE StartCalls(StartCall(S, Head(ids), meta, stream), Tail(ids), meta, stream)

\* no inbound transfer has been announced
NoXfer == [meta |-> NullMeta, prev |-> NullMeta, got |-> <<>>, done |-> 0,
           used |-> "null"]

\* ------------------------------------------------------------------- Init
Init ==
  /\ joinedRoom = FALSE
  /\ peersRef = <<>>
  /\ isSharingRef = FALSE
  /\ localStream = 0
  /\ shareReqs = <<>>
  /\ nStreams = 0
  /\ pcKeys = <<>>
  /\ signalingState = [i \in Ids |-> "none"]
  /\ senders = [i \in Ids |-> {}]
  /\ pcMeta = [i \in Ids |-> NullMeta]
  /\ constructed = [i \in Ids |-> 0]
  /\ chans = <<>>
  /\ dcKeys = <<>>
  /\ dataChannels = [i \in Ids |-> 0]
  /\ tasks = EmptyBag
  /\ callCount = [i \in Ids |-> 0]
  /\ ucCalls = [i \in Ids |-> 0]
  /\ everKnown = {}
  /\ offerOut = [i \in Ids |-> 0]
  /\ offersIn = [i \in Ids |-> 0]
  /\ established = [i \in Ids |-> FALSE]
  /\ inPending = [i \in Ids |-> 0]
  /\ receivedFileMeta = NullMeta
  /\ receivedFileChunksRef = <<>>
  /\ downloadLink = NullLink
  /\ messages = <<>>
  /\ messageInput = ""
  /\ fileTasks = <<>>
  /\ sendCount = 0
  /\ framesIn = 0
  /\ xfer = NoXfer
  /\ shareFailed = FALSE
  /\ iceRuns = <<>>
  /\ candidates = [i \in Ids |-> {}]
  /\ last = Ev("init", "", <<>>, 0, FALSE)

\* --------------------------------------------------------------- joinRoom
JoinRoom ==
  /\ ~joinedRoom
  /\ joinedRoom' = TRUE
  /\ last' = Quiet
  /\ UNCHANGED <<peersRef, shareVars, connVars, netVars, recvVars, sendVars, histVars, iceVars>>

\* ------------------------------------------------------ membership events
\* The handlers registered on the socket come from the render in which the
\* socket was created: the server address is fixed once the room is joined
\* and no channel exists before, so they see receivedFileMeta = null.
SocketMeta == NullMeta

HandleUserConnected(userId) ==
  /\ joinedRoom
  /\ ucCalls[userId] < MaxDupJoin
  /\ peersRef' = IF Contains(peersRef, userId) THEN peersRef ELSE Append(peersRef, userId)
  /\ IF isSharingRef
       THEN /\ Commit(StartCall(Cur, userId, SocketMeta, localStream))
            /\ ucCalls' = [ucCalls EXCEPT ![userId] = @ + 1]
       ELSE UNCHANGED <<connVars, ucCalls>>
  /\ Len(chans') <= MaxChans
  /\ last' = Quiet
  /\ everKnown' = everKnown \cup {userId}
  /\ UNCHANGED <<joinedRoom, shareVars, netVars, recvVars, sendVars, framesIn, xfer, shareFailed, iceVars>>

\* A variant that also closes the connection of the participant and takes
\* it out of the maps.
HandleUserDisconnectedClosing(userId) ==
  /\ joinedRoom
  /\ peersRef' = FilterSeq(peersRef, userId)
  /\ Commit([Cur EXCEPT !.keys = FilterSeq(@, userId),
                        !.sig[userId] = "none",
                        !.dkeys = FilterSeq(@, userId),
                        !.dmap[userId] = 0])
  /\ last' = EvS("user-disconnected", userId, <<>>, 0, TRUE, "", "User disconnected")
  /\ UNCHANGED <<joinedRoom, shareVars, netVars, recvVars, sendVars, histVars, iceVars>>

\* handleUserDisconnected (lines 96-99)
HandleUserDisconnected(userId) ==
  /\ joinedRoom
  /\ peersRef' = FilterSeq(peersRef, userId)
  /\ last' = EvS("user-disconnected", userId, <<>>, 0, TRUE, "", "User disconnected")
  /\ UNCHANGED <<joinedRoom, shareVars, connVars, netVars, recvVars, sendVars, histVars, iceVars>>

HandleAllUsers(users) ==
  /\ joinedRoom
  /\ peersRef' = users
  /\ everKnown' = everKnown \cup Range(users)
  /\ last' = Quiet
  /\ UNCHANGED <<joinedRoom, shareVars, connVars, netVars, recvVars, sendVars,
                 ucCalls, framesIn, xfer, shareFailed, iceVars>>

User(id) == [id |-> id, ip |-> "ip"]

\* users.map(u => u.id)
UserIds(users) == [i \in 1..Len(users) |-> users[i].id]

\* A variant that keeps the ids already known and adds the new ones.
RECURSIVE MergeIds(_, _)
MergeIds(known, ids) ==
  IF ids = <<>> THEN known
  ELSE MergeIds(IF Contains(known, Head(ids)) THEN known ELSE Append(known, Head(ids)),
                Tail(ids))

SyncedPeersMerging(known, users) == MergeIds(known, FilterSeq(UserIds(users), SelfId))

\* users.filter(u => u.id !== socket.id).map(u => u.id)
SyncedPeers(known, users) == UserIds(FilterSeq(users, User(SelfId)))

HandleUpdateUserList(users) ==
  /\ joinedRoom
  /\ peersRef' = SyncedPeers(peersRef, users)
  /\ everKnown' = everKnown \cup Range(peersRef')
  /\ last' = Ev("update-user-list", "", UserIds(users), 0, TRUE)
  /\ UNCHANGED <<joinedRoom, shareVars, connVars, netVars, recvVars, sendVars,
                 ucCalls, framesIn, xfer, shareFailed, iceVars>>

\* -------------------------------------------------------- startScreenShare
RemoveAt(s, i) == SubSeq(s, 1, i - 1) \o SubSeq(s, i + 1, Len(s))

\* A variant without the check of isSharingRef.current: a request is issued
\* whether or not a stream is shared already.
StartScreenShareUnchecked(limit) ==
  /\ joinedRoom
  /\ Len(shareReqs) < limit
  /\ shareReqs' = Append(shareReqs, receivedFileMeta)
  /\ last' = EvS("share-request", "", <<>>, 0, TRUE, "", "Requesting screen access...")
  /\ UNCHANGED <<memberVars, isSharingRef, localStream, nStreams, connVars,
                 netVars, recvVars, sendVars, histVars, iceVars>>

\* startScreenShare up to "await getDisplayMedia" (lines 259-270): the call
\* keeps the closures of the render it was issued from (its
\* receivedFileMeta).  limit bounds the requests a run issues that are
\* pending or were granted.
StartScreenShare(limit) ==
  /\ joinedRoom
  /\ IF isSharingRef
       THEN /\ UNCHANGED shareReqs
            /\ last' = Ev("share-request", "", <<>>, 0, FALSE)
       ELSE /\ Len(shareReqs) + nStreams < limit
            /\ shareReqs' = Append(shareReqs, receivedFileMeta)
            /\ last' = EvS("share-request", "", <<>>, 0, TRUE, "",
                           "Requesting screen access...")
  /\ UNCHANGED <<memberVars, isSharingRef, localStream, nStreams, connVars,
                 netVars, recvVars, sendVars, histVars, iceVars>>

\* getDisplayMedia resolved for the i-th pending request: lines 271-285
ShareAcquired(i) ==
  /\ i \in 1..Len(shareReqs)
  /\ nStreams' = nStreams + 1
  /\ localStream' = nStreams + 1
  /\ isSharingRef' = TRUE
  /\ shareReqs' = RemoveAt(shareReqs, i)
  /\ Commit(StartCalls(Cur, peersRef, shareReqs[i], nStreams + 1))
  /\ Len(chans') <= MaxChans
  /\ last' = EvS("share-acquired", "", peersRef, Len(peersRef), TRUE, "",
                 "Screen sharing started.")
  /\ UNCHANGED <<memberVars, netVars, recvVars, sendVars, histVars, iceVars>>

\* A variant for a startScreenShare that had set the flag before awaiting
\* getDisplayMedia and does not take it back in its catch block.
ShareFailedFlagKept(i) ==
  /\ i \in 1..Len(shareReqs)
  /\ shareReqs' = RemoveAt(shareReqs, i)
  /\ shareFailed' = TRUE
  /\ isSharingRef' = TRUE
  /\ last' = EvS("share-failed", "", <<>>, 0, FALSE, "Error sharing screen",
                 "Screen sharing failed")
  /\ UNCHANGED <<memberVars, localStream, nStreams, connVars,
                 netVars, recvVars, sendVars, ucCalls, everKnown, framesIn,
                 xfer, iceVars>>

\* getDisplayMedia rejected for the i-th pending request: lines 287-291
ShareFailed(i) ==
  /\ i \in 1..Len(shareReqs)
  /\ shareReqs' = RemoveAt(shareReqs, i)
  /\ shareFailed' = TRUE
  /\ last' = EvS("share-failed", "", <<>>, 0, FALSE, "Error sharing screen",
                 "Screen sharing failed")
  /\ UNCHANGED <<memberVars, isSharingRef, localStream, nStreams, connVars,
                 netVars, recvVars, sendVars, ucCalls, everKnown, framesIn,
                 xfer, iceVars>>

\* ------------------------------------------------------ startCall, alone
\* startCall(targetUserId) invoked on its own, whatever localStream.current
\* is at that moment (lines 294-315)
StartCallInvoked(id) ==
  /\ joinedRoom
  /\ callCount[id] < MaxCalls
  /\ Commit(StartCall(Cur, id, SocketMeta, localStream))
  /\ Len(chans') <= MaxChans
  /\ last' = Ev("startCall", id, <<>>, 0, localStream # 0)
  /\ UNCHANGED <<memberVars, shareVars, netVars, recvVars, sendVars, histVars,
                 iceVars>>

\* ------------------------------------------------- startCall, continuation
HasTask(t) == BagIn(t, tasks)

DropTask(t) == tasks (-) SetToBag({t})

OfferTask(id) == Task("setLocalOffer", id, SelfId, "")

\* createOffer / setLocalDescription(offer) settle and the offer is emitted
\* (lines 315-323); both reject unless the connection is in stable or
\* have-local-offer.
StartCallSendOffer(id) ==
  /\ HasTask(OfferTask(id))
  /\ tasks' = DropTask(OfferTask(id))
  /\ IF signalingState[id] \in {"stable", "have-local-offer"}
       THEN /\ signalingState' = [signalingState EXCEPT ![id] = "have-local-offer"]
            /\ offerOut' = [offerOut EXCEPT ![id] = @ + 1]
            /\ last' = Quiet
       ELSE /\ UNCHANGED <<signalingState, offerOut>>
            /\ last' = Quiet
  /\ UNCHANGED <<memberVars, shareVars, pcKeys, senders, pcMeta, constructed,
                 chans, dcKeys, dataChannels, callCount, offersIn, established,
                 inPending, recvVars, sendVars, histVars, iceVars>>

\* --------------------------------------------------------- handleReceiveOffer
RemoteOfferTask(id) == Task("setRemoteOffer", id, id, "")

AnswerTask(id) == Task("setLocalAnswer", id, id, "")

\* lines 326-330, up to "await pc.setRemoteDescription"
HandleReceiveOffer(callerId) ==
  /\ joinedRoom
  /\ offersIn[callerId] < MaxOffersIn
  /\ offersIn' = [offersIn EXCEPT ![callerId] = @ + 1]
  /\ Commit(AddTask(CreatePeerConnection(Cur, callerId, SocketMeta),
                    RemoteOfferTask(callerId)))
  /\ last' = Quiet
  /\ UNCHANGED <<memberVars, shareVars, offerOut, established,
                 inPending, recvVars, sendVars, histVars, iceVars>>

\* setRemoteDescription(offer) settles.  On a connection in have-local-offer
\* the browser either rolls the local offer back and applies the remote one
\* or rejects; which one depends on the web view.
ReceiveOfferApply(id, rollback) ==
  /\ HasTask(RemoteOfferTask(id))
  /\ LET applies == \/ signalingState[id] \in {"stable", "have-remote-offer"}
                    \/ signalingState[id] = "have-local-offer" /\ rollback
     IN /\ rollback => signalingState[id] = "have-local-offer"
        /\ IF applies
             THEN /\ signalingState' = [signalingState EXCEPT ![id] = "have-remote-offer"]
                  /\ tasks' = DropTask(RemoteOfferTask(id)) (+) SetToBag({AnswerTask(id)})
             ELSE /\ UNCHANGED signalingState
                  /\ tasks' = DropTask(RemoteOfferTask(id))
        /\ last' = Quiet
  /\ UNCHANGED <<memberVars, shareVars, pcKeys, senders, pcMeta, constructed,
                 chans, dcKeys, dataChannels, callCount, netVars, recvVars,
                 sendVars, histVars, iceVars>>

\* createAnswer / setLocalDescription(answer) settle and the answer is
\* emitted (lines 333-340); the caller's data channel can be announced from
\* now on.
ReceiveOfferSendAnswer(id) ==
  /\ HasTask(AnswerTask(id))
  /\ tasks' = DropTask(AnswerTask(id))
  /\ IF signalingState[id] = "have-remote-offer"
       THEN /\ signalingState' = [signalingState EXCEPT ![id] = "stable"]
            /\ established' = [established EXCEPT ![id] = TRUE]
            /\ inPending' = [inPending EXCEPT ![id] = @ + 1]
            /\ last' = Quiet
       ELSE /\ UNCHANGED <<signalingState, established, inPending>>
            /\ last' = Quiet
  /\ UNCHANGED <<memberVars, shareVars, pcKeys, senders, pcMeta, constructed,
                 chans, dcKeys, dataChannels, callCount, offerOut,
                 offersIn, recvVars, sendVars, histVars, iceVars>>

\* -------------------------------------------------------- handleReceiveAnswer
\* keys of the connections in have-local-offer, in map order
RECURSIVE InLocalOffer(_, _)
InLocalOffer(keys, sig) ==
  IF keys = <<>> THEN <<>>
  ELSE IF sig[Head(keys)] = "have-local-offer"
         THEN <<Head(keys)>> \o InLocalOffer(Tail(keys), sig)
         ELSE InLocalOffer(Tail(keys), sig)

\* A variant of the fallback that takes the last connection of the map.
AnswerTargetLast(keys, sig, callerId) ==
  IF Contains(keys, callerId) THEN <<callerId>>
  ELSE IF keys = <<>> THEN <<>> ELSE <<keys[Len(keys)]>>

\* The connection handleReceiveAnswer hands the answer to, as a sequence of
\* at most one key: peerConnections.get(callerId) if there is one, else the
\* first connection of the map that is in have-local-offer (lines 348-360).
AnswerTarget(keys, sig, callerId) ==
  IF Contains(keys, callerId) THEN <<callerId>>
  ELSE LET c == InLocalOffer(keys, sig) IN
       IF c = <<>> THEN <<>> ELSE <<Head(c)>>

AnswerHow(callerId) ==
  IF Contains(pcKeys, callerId) THEN "by-id"
  ELSE IF Len(InLocalOffer(pcKeys, signalingState)) = 1 THEN "only" ELSE "first"

\* an answer of participant from arrives, tagged with callerId
HandleReceiveAnswer(from, callerId) ==
  /\ joinedRoom
  /\ offerOut[from] > 0
  /\ callerId \in {from, Undefined}
  /\ offerOut' = [offerOut EXCEPT ![from] = @ - 1]
  /\ LET tgt == AnswerTarget(pcKeys, signalingState, callerId) IN
       /\ tasks' = IF tgt = <<>> THEN tasks
                   ELSE tasks (+) SetToBag({Task("setRemoteAnswer", tgt[1], from,
                                                 AnswerHow(callerId))})
       /\ last' = Ev("answer", callerId, tgt,
                     Len(InLocalOffer(pcKeys, signalingState)), tgt # <<>>)
  /\ UNCHANGED <<memberVars, shareVars, pcKeys, signalingState, senders, pcMeta,
                 constructed, chans, dcKeys, dataChannels, callCount,
                 offersIn, established, inPending, recvVars, sendVars, histVars, iceVars>>

\* setRemoteDescription(answer) settles on the connection it was handed to
\* (lines 350 / 356); it rejects unless that connection is in
\* have-local-offer.
ReceiveAnswerApply(t) ==
  /\ HasTask(t)
  /\ t.k = "setRemoteAnswer"
  /\ tasks' = DropTask(t)
  /\ IF signalingState[t.id] = "have-local-offer"
       THEN /\ signalingState' = [signalingState EXCEPT ![t.id] = "stable"]
            /\ established' = [established EXCEPT ![t.id] = TRUE]
            /\ last' = Ev("answer-applied", t.id, <<t.from, t.how>>, 0, TRUE)
       ELSE /\ UNCHANGED <<signalingState, established>>
            /\ last' = Ev("answer-applied", t.id, <<t.from, t.how>>, 0, FALSE)
  /\ UNCHANGED <<memberVars, shareVars, pcKeys, senders, pcMeta, constructed,
                 chans, dcKeys, dataChannels, callCount, offerOut,
                 offersIn, inPending, recvVars, sendVars, histVars, iceVars>>

AnswerTasks == [k : {"setRemoteAnswer"}, id : Ids, from : Ids, how : {"by-id", "only", "first"}]

\* --------------------------------------------------- handleNewICECandidateMsg
\* A call of handleNewICECandidateMsg: cid is payload.callerId, byId tells
\* whether peerConnections.get found a connection, keys0 are the keys of the
\* map when the message arrived, at is the connection whose addIceCandidate
\* is awaited, tried the connections whose addIceCandidate has settled,
\* failed those among them that rejected, done tells that the handler has
\* returned and thrown that it ended with an exception.
IceRun(cid, byId, keys0, at) ==
  [cid |-> cid, byId |-> byId, keys0 |-> keys0, at |-> at, tried |-> <<>>,
   failed |-> {}, done |-> at = "", thrown |-> FALSE]

\* position of key id in the map
IndexOf(keys, id) == CHOOSE i \in 1..Len(keys) : keys[i] = id

\* A variant whose loop has no try / catch around addIceCandidate: the first
\* rejection ends the handler.
IceSettledAborting(run, ok, keys) ==
  LET tried == Append(run.tried, run.at)
      failed == IF ok THEN run.failed ELSE run.failed \cup {run.at}
      pos == IndexOf(keys, run.at)
      more == ok /\ ~run.byId /\ pos < Len(keys)
  IN [run EXCEPT !.tried = tried,
                 !.failed = failed,
                 !.at = IF more THEN keys[pos + 1] ELSE "",
                 !.done = ~more,
                 !.thrown = ~ok]

\* The call after the awaited addIceCandidate has settled (lines 369-373,
\* 376-383): a rejection is caught; the loop of the fallback goes on with
\* the next entry of the map as it is now.
IceSettled(run, ok, keys) ==
  LET tried == Append(run.tried, run.at)
      failed == IF ok THEN run.failed ELSE run.failed \cup {run.at}
      pos == IndexOf(keys, run.at)
      more == ~run.byId /\ pos < Len(keys)
  IN [run EXCEPT !.tried = tried,
                 !.failed = failed,
                 !.at = IF more THEN keys[pos + 1] ELSE "",
                 !.done = ~more]

\* an ice-candidate message tagged with callerId arrives (lines 364-378, up
\* to the first await)
HandleNewICECandidateMsg(callerId) ==
  /\ joinedRoom
  /\ Len(iceRuns) < MaxCands
  /\ LET run == IF Contains(pcKeys, callerId)
                  THEN IceRun(callerId, TRUE, pcKeys, callerId)
                  ELSE IceRun(callerId, FALSE, pcKeys,
                              IF pcKeys = <<>> THEN "" ELSE Head(pcKeys))
     IN /\ iceRuns' = Append(iceRuns, run)
        /\ last' = Ev("ice-candidate", callerId, pcKeys, Len(iceRuns) + 1, run.done)
  /\ UNCHANGED <<memberVars, shareVars, connVars, netVars, recvVars, sendVars,
                 histVars, candidates>>

\* the addIceCandidate awaited by the r-th call settles: the connection
\* takes the candidate (ok) or rejects it
AddIceCandidateSettles(r, ok) ==
  /\ r \in 1..Len(iceRuns)
  /\ ~iceRuns[r].done
  /\ LET run == IceSettled(iceRuns[r], ok, pcKeys) IN
       /\ iceRuns' = [iceRuns EXCEPT ![r] = run]
       /\ candidates' = IF ok THEN [candidates EXCEPT ![iceRuns[r].at] = @ \cup {r}]
                        ELSE candidates
       /\ last' = Ev("addIceCandidate", iceRuns[r].at, run.tried, r, ok)
  /\ UNCHANGED <<memberVars, shareVars, connVars, netVars, recvVars, sendVars,
                 histVars>>

\* ------------------------------------------------------ channel lifecycle
SetChan(c, field, v) == [chans EXCEPT ![c] = [@ EXCEPT ![field] = v]]

\* pc.ondatachannel (lines 248-253): the channel the remote side created is
\* announced, already open; it gets the message handler of the render the
\* connection was created from.
OnDataChannel(id) ==
  /\ inPending[id] > 0
  /\ Len(chans) < MaxChans
  /\ inPending' = [inPending EXCEPT ![id] = @ - 1]
  /\ LET S1 == [Cur EXCEPT !.chans = Append(@, NewChannel(id, "in", "open", pcMeta[id]))]
     IN Commit(SetChannel(S1, id, Len(S1.chans)))
  /\ last' = Quiet
  /\ UNCHANGED <<memberVars, shareVars, offerOut, offersIn, established,
                 recvVars, sendVars, histVars, iceVars>>

\* dc.onopen (line 312): a channel created by startCall opens once the
\* transport to its peer is up.
ChannelOpen(c) ==
  /\ c \in 1..Len(chans)
  /\ chans[c].readyState = "connecting"
  /\ established[chans[c].peer]
  /\ chans' = SetChan(c, "readyState", "open")
  /\ last' = Quiet
  /\ UNCHANGED <<memberVars, shareVars, pcKeys, signalingState, senders, pcMeta,
                 constructed, dcKeys, dataChannels, tasks, callCount, netVars,
                 recvVars, sendVars, histVars, iceVars>>

\* the transport or the remote side closes an open channel
ChannelClose(c) ==
  /\ c \in 1..Len(chans)
  /\ chans[c].readyState = "open"
  /\ chans' = SetChan(c, "readyState", "closed")
  /\ last' = Quiet
  /\ UNCHANGED <<memberVars, shareVars, pcKeys, signalingState, senders, pcMeta,
                 constructed, dcKeys, dataChannels, tasks, callCount, netVars,
                 recvVars, sendVars, histVars, iceVars>>

\* ------------------------------------------------- handleDataChannelMessage
\* A byte range [lo, hi) of the source src stands for hi - lo bytes.
Chunk(src, lo, hi) == [src |-> src, lo |-> lo, hi |-> hi]

ByteLength(ch) == ch.hi - ch.lo

RECURSIVE TotalReceived(_)
\* newChunks.reduce((acc, chunk) => acc + chunk.byteLength, 0)
TotalReceived(chunks) ==
  IF chunks = <<>> THEN 0 ELSE ByteLength(Head(chunks)) + TotalReceived(Tail(chunks))

RECURSIVE Blob(_)
\* new Blob(newChunks): the bytes of the chunks one after the other, as a
\* sequence of maximal byte ranges
Blob(chunks) ==
  IF chunks = <<>> THEN <<>>
  ELSE LET rest == Blob(Tail(chunks))
           h == Head(chunks)
       IN IF ByteLength(h) = 0 THEN rest
          ELSE IF rest # <<>> /\ rest[1].src = h.src /\ rest[1].lo = h.hi
                 THEN <<Chunk(h.src, h.lo, rest[1].hi)>> \o Tail(rest)
                 ELSE <<h>> \o rest

Log(line) == messages' = Append(messages, line)

ChannelVarsUnchanged ==
  UNCHANGED <<memberVars, shareVars, connVars, netVars, sendVars, ucCalls, everKnown,
              shareFailed, iceVars>>

\* a text frame {type: "chat"} (lines 171-172), or a text frame that is no
\* JSON (lines 178-181), arrives on channel c
RecvChat(c, json) ==
  /\ c \in 1..Len(chans)
  /\ chans[c].readyState = "open"
  /\ Len(messages) < MaxLog
  /\ Log(IF json THEN "Peer: chat" ELSE "Peer: text")
  /\ last' = Quiet
  /\ UNCHANGED <<receivedFileMeta, receivedFileChunksRef, downloadLink, framesIn, xfer>>
  /\ ChannelVarsUnchanged

\* a text frame {type: "file-meta", name, size} arrives on channel c
\* (lines 173-176)
RecvFileMeta(c, parsed) ==
  /\ c \in 1..Len(chans)
  /\ chans[c].readyState = "open"
  /\ Len(messages) < MaxLog
  /\ receivedFileMeta' = parsed
  /\ receivedFileChunksRef' = <<>>
  /\ Log("System: Receiving file")
  /\ xfer' = [meta |-> parsed,
              prev |-> IF xfer.meta # NullMeta /\ TotalReceived(xfer.got) < xfer.meta.size
                         THEN xfer.meta ELSE NullMeta,
              got |-> <<>>, done |-> 0, used |-> "null"]
  /\ last' = Quiet
  /\ UNCHANGED <<downloadLink, framesIn>>
  /\ ChannelVarsUnchanged

\* A variant of the binary branch that reads the current receivedFileMeta
\* state instead of the value its render captured.
BinaryFrameFresh(captured, current, stored, data) ==
  IF current = NullMeta
    THEN [chunks |-> stored, complete |-> FALSE, link |-> NullLink]
    ELSE LET newChunks == Append(stored, data) IN
         [chunks |-> newChunks,
          complete |-> TotalReceived(newChunks) >= current.size,
          link |-> [name |-> current.name, blob |-> Blob(newChunks)]]

\* The binary branch (lines 183-200) of a handler whose render captured
\* receivedFileMeta = captured, while the state holds current: the chunk
\* store afterwards, whether the download link is set, and the link.
BinaryFrame(captured, current, stored, data) ==
  IF captured = NullMeta
    THEN [chunks |-> stored, complete |-> FALSE, link |-> NullLink]
    ELSE LET newChunks == Append(stored, data) IN
         [chunks |-> newChunks,
          complete |-> TotalReceived(newChunks) >= captured.size,
          link |-> [name |-> captured.name, blob |-> Blob(newChunks)]]

\* a binary frame arrives on channel c
RecvBinary(c, data) ==
  /\ c \in 1..Len(chans)
  /\ chans[c].readyState = "open"
  /\ framesIn < MaxFrames
  /\ framesIn' = framesIn + 1
  /\ LET r == BinaryFrame(chans[c].meta, receivedFileMeta, receivedFileChunksRef, data) IN
       /\ receivedFileChunksRef' = r.chunks
       /\ IF r.complete
            THEN /\ Len(messages) < MaxLog
                 /\ downloadLink' = r.link
                 /\ Log("System: File received.")
            ELSE UNCHANGED <<downloadLink, messages>>
       /\ xfer' = IF xfer.meta = NullMeta THEN xfer
                  ELSE [xfer EXCEPT !.got = Append(@, data),
                                    !.done = IF r.complete THEN @ + 1 ELSE @,
                                    !.used = IF r.complete THEN r.link.name ELSE @]
       /\ last' = Quiet
  /\ UNCHANGED receivedFileMeta
  /\ ChannelVarsUnchanged

\* -------------------------------------------------------------- sendMessage
\* what dc.send puts on the wire; fid numbers the sendFile call a frame
\* belongs to (0 for chat)
Frame(t, name, size, lo, hi, fid) ==
  [t |-> t, name |-> name, size |-> size, lo |-> lo, hi |-> hi, fid |-> fid]

ChatFrame(text) == Frame("chat", text, 0, 0, 0, 0)

MetaFrame(file, fid) == Frame("file-meta", file.name, file.size, 0, 0, fid)

RECURSIVE OpenChannels(_, _, _)
\* the entries of dataChannels whose channel is open, in map order
\* (lines 390-391, 406-407)
OpenChannels(dkeys, dmap, ch) ==
  IF dkeys = <<>> THEN <<>>
  ELSE LET c == dmap[Head(dkeys)]
           rest == OpenChannels(Tail(dkeys), dmap, ch)
       IN IF ch[c].readyState = "open" THEN <<c>> \o rest ELSE rest

\* ch with frame appended to what channel c has sent
Sent(ch, c, frame) == [ch EXCEPT ![c] = [@ EXCEPT !.out = Append(@, frame)]]

RECURSIVE SendAll(_, _, _)
SendAll(ch, cs, frame) ==
  IF cs = <<>> THEN ch ELSE SendAll(Sent(ch, Head(cs), frame), Tail(cs), frame)

\* the input field changes (line 510)
TypeMessage(text) ==
  /\ messageInput # text
  /\ messageInput' = text
  /\ last' = Quiet
  /\ UNCHANGED <<memberVars, shareVars, connVars, netVars, recvVars, fileTasks,
                 sendCount, histVars, iceVars>>

\* sendMessage (lines 387-401); it returns undefined and raises no alert
\* whether or not a channel took the message.
SendMessage ==
  /\ sendCount < MaxSends
  /\ sendCount' = sendCount + 1
  /\ LET cs == OpenChannels(dcKeys, dataChannels, chans)
         sent == cs # <<>>
     IN /\ chans' = SendAll(chans, cs, ChatFrame(messageInput))
        /\ IF sent
             THEN /\ Len(messages) < MaxLog
                  /\ Log("Me: chat")
                  /\ messageInput' = ""
             ELSE UNCHANGED <<messages, messageInput>>
        /\ last' = EvA("sendMessage", "", cs, Len(cs), sent, "")
  /\ UNCHANGED <<memberVars, shareVars, pcKeys, signalingState, senders, pcMeta,
                 constructed, dcKeys, dataChannels, tasks, callCount, netVars,
                 receivedFileMeta, receivedFileChunksRef, downloadLink,
                 fileTasks, histVars, iceVars>>

\* ----------------------------------------------------------------- sendFile
\* A variant that keeps the last open channel of the map.
FirstOpenChannelLast(dkeys, dmap, ch) ==
  LET cs == OpenChannels(dkeys, dmap, ch) IN
  IF cs = <<>> THEN 0 ELSE cs[Len(cs)]

\* the channel sendFile picks (lines 405-411): the first open one of the
\* map, 0 when none is open
FirstOpenChannel(dkeys, dmap, ch) ==
  LET cs == OpenChannels(dkeys, dmap, ch) IN
  IF cs = <<>> THEN 0 ELSE Head(cs)

Min(a, b) == IF a < b THEN a ELSE b

RECURSIVE FileChunks(_, _, _)
\* for (i = 0; i < byteLength; i += CHUNK_SIZE) buffer.slice(i, i + CHUNK_SIZE)
\* (lines 431-434): the frames from offset i on
FileChunks(file, fid, i) ==
  IF i < file.size
    THEN <<Frame("bin", file.name, 0, i, Min(i + CHUNK_SIZE, file.size), fid)>>
           \o FileChunks(file, fid, i + CHUNK_SIZE)
    ELSE <<>>

RECURSIVE SendSeq(_, _, _)
SendSeq(ch, c, frames) ==
  IF frames = <<>> THEN ch ELSE SendSeq(Sent(ch, c, Head(frames)), c, Tail(frames))

\* sendFile up to "await file.arrayBuffer()" (lines 403-429)
SendFile(file) ==
  /\ sendCount < MaxSends
  /\ sendCount' = sendCount + 1
  /\ LET c == FirstOpenChannel(dcKeys, dataChannels, chans)
         fid == sendCount + 1
     IN IF c = 0
          THEN /\ last' = EvA("sendFile", file.name, <<0, file.size, fid>>, 0, FALSE,
                              "Connection not ready.")
               /\ UNCHANGED <<chans, messages, fileTasks>>
          ELSE /\ Len(messages) < MaxLog
               /\ chans' = Sent(chans, c, MetaFrame(file, fid))
               /\ Log("Me: Sending file")
               /\ fileTasks' = Append(fileTasks, [c |-> c, file |-> file, fid |-> fid])
               /\ last' = Ev("sendFile", file.name, <<c, file.size, fid>>, 1, TRUE)
  /\ UNCHANGED <<memberVars, shareVars, pcKeys, signalingState, senders, pcMeta,
                 constructed, dcKeys, dataChannels, tasks, callCount, netVars,
                 receivedFileMeta, receivedFileChunksRef, downloadLink,
                 messageInput, histVars, iceVars>>

\* the bytes of the i-th pending sendFile are read (lines 431-436); send
\* throws on a channel that is no longer open, which ends the call.
SendFileChunks(i) ==
  /\ i \in 1..Len(fileTasks)
  /\ fileTasks' = RemoveAt(fileTasks, i)
  /\ LET t == fileTasks[i]
         frames == FileChunks(t.file, t.fid, 0)
         throws == frames # <<>> /\ chans[t.c].readyState # "open"
     IN /\ IF throws
             THEN UNCHANGED <<chans, messages>>
             ELSE /\ Len(messages) < MaxLog
                  /\ chans' = SendSeq(chans, t.c, frames)
                  /\ Log("Me: File sent.")
        /\ last' = Ev("sendChunks", t.file.name, <<t.c, t.file.size, t.fid>>,
                      Len(frames), ~throws)
  /\ UNCHANGED <<memberVars, shareVars, pcKeys, signalingState, senders, pcMeta,
                 constructed, dcKeys, dataChannels, tasks, callCount, netVars,
                 receivedFileMeta, receivedFileChunksRef, downloadLink,
                 messageInput, sendCount, histVars, iceVars>>

\* ------------------------------------------------------ specification: Spec
\* Signaling: membership, sharing, calls, offers and answers.
Next ==
  \/ JoinRoom
  \/ \E id \in Ids : HandleUserConnected(id)
  \/ StartScreenShare(MaxShare)
  \/ \E i \in 1..MaxShare : ShareAcquired(i)
  \/ \E i \in 1..MaxShare : ShareFailed(i)
  \/ \E id \in Ids : StartCallSendOffer(id)
  \/ \E id \in Ids : HandleReceiveOffer(id)
  \/ \E id \in Ids, rb \in BOOLEAN : ReceiveOfferApply(id, rb)
  \/ \E id \in Ids : ReceiveOfferSendAnswer(id)
  \/ \E from \in Ids, cid \in Ids \cup {Undefined} : HandleReceiveAnswer(from, cid)
  \/ \E t \in AnswerTasks : ReceiveAnswerApply(t)

Spec == Init /\ [][Next]_vars

\* ------------------------------------------------ specification: SpecMember
\* Membership: every relay membership event, the share request and its
\* fan-out; the calls the fan-out starts stay pending.
UserLists == {[i \in 1..Len(ids) |-> User(ids[i])] : ids \in InjSeqs(Ids \cup {SelfId}, 3)}

NextMember ==
  \/ JoinRoom
  \/ \E id \in Ids : HandleUserConnected(id)
  \/ \E id \in Ids : HandleUserDisconnected(id)
  \/ \E users \in InjSeqs(Ids, 2) : HandleAllUsers(users)
  \/ \E users \in UserLists : HandleUpdateUserList(users)
  \/ StartScreenShare(MaxShare)
  \/ \E i \in 1..MaxShare : ShareAcquired(i)
  \/ \E i \in 1..MaxShare : ShareFailed(i)

SpecMember == Init /\ [][NextMember]_vars

\* -------------------------------------------------- specification: SpecRecv
\* Reception: one remote participant, its calls and ours, the channels of
\* both directions, and the frames arriving on them.
RecvIds == {"A"}

RecvChunks == {Chunk("x", 0, 1), Chunk("x", 1, 2)}

NextRecv ==
  \/ JoinRoom
  \/ \E id \in RecvIds : HandleUserConnected(id)
  \/ StartScreenShare(MaxShare)
  \/ \E i \in 1..MaxShare : ShareAcquired(i)
  \/ \E id \in RecvIds : StartCallSendOffer(id)
  \/ \E id \in RecvIds : HandleReceiveOffer(id)
  \/ \E id \in RecvIds, rb \in BOOLEAN : ReceiveOfferApply(id, rb)
  \/ \E id \in RecvIds : ReceiveOfferSendAnswer(id)
  \/ \E from \in RecvIds : HandleReceiveAnswer(from, Undefined)
  \/ \E t \in AnswerTasks : ReceiveAnswerApply(t)
  \/ \E id \in RecvIds : OnDataChannel(id)
  \/ \E c \in 1..MaxChans : ChannelOpen(c)
  \/ \E c \in 1..MaxChans, m \in Metas : RecvFileMeta(c, m)
  \/ \E c \in 1..MaxChans, d \in RecvChunks : RecvBinary(c, d)

SpecRecv == Init /\ [][NextRecv]_vars

\* -------------------------------------------------- specification: SpecChat
\* Chat: one remote participant, its calls and ours, the channels of both
\* directions opening and closing, chat typed, sent and received.
Texts == {"hi"}

NextChat ==
  \/ JoinRoom
  \/ \E id \in RecvIds : HandleUserConnected(id)
  \/ StartScreenShare(MaxShare)
  \/ \E i \in 1..MaxShare : ShareAcquired(i)
  \/ \E id \in RecvIds : StartCallSendOffer(id)
  \/ \E id \in RecvIds : HandleReceiveOffer(id)
  \/ \E id \in RecvIds, rb \in BOOLEAN : ReceiveOfferApply(id, rb)
  \/ \E id \in RecvIds : ReceiveOfferSendAnswer(id)
  \/ \E from \in RecvIds : HandleReceiveAnswer(from, Undefined)
  \/ \E t \in AnswerTasks : ReceiveAnswerApply(t)
  \/ \E id \in RecvIds : OnDataChannel(id)
  \/ \E c \in 1..MaxChans : ChannelOpen(c)
  \/ \E c \in 1..MaxChans : ChannelClose(c)
  \/ \E text \in Texts : TypeMessage(text)
  \/ SendMessage
  \/ \E c \in 1..MaxChans, json \in BOOLEAN : RecvChat(c, json)

SpecChat == Init /\ [][NextChat]_vars

\* -------------------------------------------------- specification: SpecSend
\* File sending: both remote participants call us, we call participant A,
\* the channels open and close, files are sent.
Files == [name : {"doc"}, size : {0, CHUNK_SIZE, 2 * CHUNK_SIZE + 1}]

NextSend ==
  \/ JoinRoom
  \/ HandleAllUsers(<<"A">>)
  \/ StartScreenShare(MaxShare)
  \/ \E i \in 1..MaxShare : ShareAcquired(i)
  \/ StartCallSendOffer("A")
  \/ HandleReceiveAnswer("A", Undefined)
  \/ \E t \in AnswerTasks : ReceiveAnswerApply(t)
  \/ \E id \in Ids : HandleReceiveOffer(id)
  \/ \E id \in Ids : ReceiveOfferApply(id, FALSE)
  \/ \E id \in Ids : ReceiveOfferSendAnswer(id)
  \/ \E id \in Ids : OnDataChannel(id)
  \/ \E c \in 1..MaxChans : ChannelOpen(c)
  \/ \E c \in 1..MaxChans : ChannelClose(c)
  \/ \E file \in Files : SendFile(file)
  \/ \E i \in 1..MaxSends : SendFileChunks(i)

SpecSend == Init /\ [][NextSend]_vars

\* ------------------------------------------------- specification: SpecShare
\* Sharing: every relay membership event, the share request, its fan-out and
\* the offers the fan-out sends.

\* the lists of update-user-list that name the local participant first
SelfFirstLists == {users \in UserLists : users # <<>> /\ users[1] = User(SelfId)}

NextShare ==
  \/ JoinRoom
  \/ \E id \in Ids : HandleUserConnected(id)
  \/ \E id \in Ids : HandleUserDisconnected(id)
  \/ \E users \in InjSeqs(Ids, 2) : HandleAllUsers(users)
  \/ \E users \in SelfFirstLists : HandleUpdateUserList(users)
  \/ StartScreenShare(MaxShare)
  \/ \E i \in 1..MaxShare : ShareAcquired(i)
  \/ \E i \in 1..MaxShare : ShareFailed(i)
  \/ \E id \in Ids : StartCallSendOffer(id)

SpecShare == Init /\ [][NextShare]_vars

\* -------------------------------------------------- specification: SpecRace
\* Racing share requests: as SpecShare, with one more share request pending
\* at a time than MaxShare.
NextRace ==
  \/ JoinRoom
  \/ \E id \in Ids : HandleUserConnected(id)
  \/ \E id \in Ids : HandleUserDisconnected(id)
  \/ \E users \in InjSeqs(Ids, 2) : HandleAllUsers(users)
  \/ \E users \in SelfFirstLists : HandleUpdateUserList(users)
  \/ StartScreenShare(MaxShare + 1)
  \/ \E i \in 1..MaxShare + 1 : ShareAcquired(i)
  \/ \E i \in 1..MaxShare + 1 : ShareFailed(i)
  \/ \E id \in Ids : StartCallSendOffer(id)

SpecRace == Init /\ [][NextRace]_vars

\* -------------------------------------------------- specification: SpecCall
\* Calling: startCall invoked at any moment, before or after a share request
\* was granted, next to the calls of the fan-out and the offers of remote
\* participant A.
NextCall ==
  \/ JoinRoom
  \/ HandleAllUsers(<<"B">>)
  \/ StartScreenShare(MaxShare)
  \/ \E i \in 1..MaxShare : ShareAcquired(i)
  \/ \E id \in Ids : StartCallInvoked(id)
  \/ \E id \in Ids : StartCallSendOffer(id)
  \/ \E id \in RecvIds : HandleReceiveOffer(id)
  \/ \E id \in RecvIds : ReceiveOfferApply(id, FALSE)
  \/ \E id \in RecvIds : ReceiveOfferSendAnswer(id)
  \/ \E id \in RecvIds : OnDataChannel(id)

SpecCall == Init /\ [][NextCall]_vars

\* --------------------------------------------------- specification: SpecIce
\* Candidates: the remote participants call us, which creates connections,
\* and ice-candidate messages arrive with and without a sender id.
NextIce ==
  \/ JoinRoom
  \/ \E id \in Ids : HandleReceiveOffer(id)
  \/ \E id \in Ids : ReceiveOfferApply(id, FALSE)
  \/ \E id \in Ids : ReceiveOfferSendAnswer(id)
  \/ \E cid \in Ids \cup {Undefined} : HandleNewICECandidateMsg(cid)
  \/ \E r \in 1..MaxCands, ok \in BOOLEAN : AddIceCandidateSettles(r, ok)

SpecIce == Init /\ [][NextIce]_vars

\* ------------------------------------------------- specification: SpecFrame
\* Framing: participant A calls us, its channel is announced, and files and
\* chat messages are sent on it in any interleaving.
NextFrame ==
  \/ JoinRoom
  \/ HandleReceiveOffer("A")
  \/ ReceiveOfferApply("A", FALSE)
  \/ ReceiveOfferSendAnswer("A")
  \/ OnDataChannel("A")
  \/ \E c \in 1..MaxChans : ChannelClose(c)
  \/ \E text \in Texts : TypeMessage(text)
  \/ SendMessage
  \/ \E file \in Files : SendFile(file)
  \/ \E i \in 1..MaxSends : SendFileChunks(i)

SpecFrame == Init /\ [][NextFrame]_vars

\* ================================================================ properties

\* C1: at most one peer connection exists per participant id: whatever
\* events came before, createPeerConnection has built at most one object for
\* an id, the map holds every id at most once, and it holds an id exactly
\* when an object was built for it.
C1_OneConnectionPerId ==
  /\ \A id \in Ids : constructed[id] <= 1
  /\ \A id \in Ids : (constructed[id] = 1) <=> Contains(pcKeys, id)
  /\ Cardinality(Range(pcKeys)) = Len(pcKeys)

\* createPeerConnection ran for the same id from an inbound offer and from
\* startCall, and one object exists
C1_Witness ==
  \E id \in Ids : offersIn[id] >= 1 /\ callCount[id] >= 1 /\ constructed[id] = 1

\* C2: while sharing, handleUserConnected calls startCall for a participant
\* at most once, however often user-connected arrives for it.
C2_CalledOncePerJoin == \A id \in Ids : ucCalls[id] <= 1

\* C9: right after update-user-list the known peers are the ids of the
\* payload without the local id, and the share fan-out calls startCall for
\* exactly the peers known at that moment.
C9_ListReplacesPeers ==
  /\ [](last.op = "update-user-list" => Range(peersRef) = Range(last.ids) \ {SelfId})
  /\ [][last'.op = "share-acquired" =>
          \A id \in Ids : (callCount'[id] # callCount[id]) <=> Contains(peersRef, id)]_vars

\* A was known, a later list dropped it, and the fan-out called B only
C9_Witness ==
  /\ last.op = "share-acquired"
  /\ "A" \in everKnown
  /\ peersRef = <<"B">>
  /\ callCount["A"] = 0
  /\ callCount["B"] = 1

C3_CompleteOnExactSize ==
  (xfer.meta # NullMeta /\ TotalReceived(xfer.got) = xfer.meta.size) =>
     /\ xfer.done = 1
     /\ downloadLink = [name |-> xfer.meta.name, blob |-> Blob(xfer.got)]

\* C4: once a file-meta has replaced an unfinished transfer, the chunk store
\* is empty until the next binary frame and no completion fires under the
\* name of the replaced transfer.
C4_NoCompletionForReplaced ==
  (xfer.prev # NullMeta /\ xfer.prev.name # xfer.meta.name) =>
     /\ xfer.got = <<>> => receivedFileChunksRef = <<>>
     /\ xfer.done > 0 => xfer.used # xfer.prev.name

\* C5: once the completion has fired for a transfer, no transfer is tracked
\* (receivedFileMeta is null again) and no further completion fires until
\* the next file-meta.
C5_ClearedAfterCompletion ==
  xfer.done >= 1 => (receivedFileMeta = NullMeta /\ xfer.done = 1)

\* C6: sendMessage called while no tracked channel is open sends nothing,
\* leaves the chat log alone and tells its caller with a notice that nothing
\* was sent.
C6_NotSentIsReported ==
  [][(last'.op = "sendMessage" /\ OpenChannels(dcKeys, dataChannels, chans) = <<>>) =>
        /\ chans' = chans
        /\ messages' = messages
        /\ last'.alert # ""]_vars

\* C7: sendMessage puts one frame on every channel object that is open,
\* tracked in the map or not, and appends to the chat log exactly when some
\* channel took the frame.
C7_SendsOnEveryOpenChannel ==
  [][last'.op = "sendMessage" =>
        /\ \A c \in 1..Len(chans) :
             chans[c].readyState = "open" =>
               chans'[c].out = Append(chans[c].out, ChatFrame(messageInput))
        /\ (messages' # messages) <=>
             (\E c \in 1..Len(chans) : chans'[c].out # chans[c].out)]_vars

\* the frames of sendFile call fid among what a channel has sent
FramesOf(out, fid) == SelectSeq(out, LAMBDA f : f.fid = fid)

\* bins are binary frames of 1..CHUNK_SIZE bytes that follow one another
\* from offset 0 and end at size
WellChunked(bins, size) ==
  /\ \A i \in 1..Len(bins) :
       /\ bins[i].t = "bin"
       /\ bins[i].hi - bins[i].lo \in 1..CHUNK_SIZE
       /\ bins[i].lo = IF i = 1 THEN 0 ELSE bins[i - 1].hi
  /\ IF bins = <<>> THEN size = 0 ELSE bins[Len(bins)].hi = size

C11_ShareWhileSharingIsNoOp ==
  [][(last'.op = "share-request" /\ isSharingRef) =>
        /\ ~last'.ok
        /\ UNCHANGED <<shareVars, connVars, netVars>>]_vars

\* a share request was issued while sharing, with a peer known and a call to
\* it still pending
C11_Witness ==
  /\ last.op = "share-request"
  /\ ~last.ok
  /\ isSharingRef
  /\ localStream # 0
  /\ peersRef # <<>>
  /\ tasks # EmptyBag

\* C12: a share request whose media acquisition fails leaves the flag, the
\* local stream, the connections, the channels, the pending calls and the
\* offers sent as they were and shows a status text; as long as no
\* acquisition has succeeded the flag is unset, no stream is attached and no
\* peer has been called; a request issued after the failure asks for media
\* again, and an acquisition that succeeds then sets the flag and the stream.
C12_FailedShareSetsNothing ==
  /\ [][last'.op = "share-failed" =>
          /\ isSharingRef' = isSharingRef
          /\ localStream' = localStream
          /\ UNCHANGED <<connVars, netVars>>
          /\ last'.status # ""]_vars
  /\ [](nStreams = 0 =>
          /\ ~isSharingRef
          /\ localStream = 0
          /\ pcKeys = <<>> /\ chans = <<>> /\ tasks = EmptyBag
          /\ \A id \in Ids : callCount[id] = 0 /\ offerOut[id] = 0)
  /\ [][(last'.op = "share-request" /\ shareFailed /\ ~isSharingRef) =>
          last'.ok /\ Len(shareReqs') = Len(shareReqs) + 1]_vars
  /\ [][(last'.op = "share-acquired" /\ shareFailed) =>
          isSharingRef' /\ localStream' # 0]_vars

\* an acquisition failed while a peer was known and nothing was shared
C12_Witness ==
  /\ last.op = "share-failed"
  /\ peersRef # <<>>
  /\ ~isSharingRef
  /\ localStream = 0

\* after a failed acquisition a later request succeeded and called a peer
C12_WitnessRetry ==
  /\ shareFailed
  /\ last.op = "share-acquired"
  /\ isSharingRef
  /\ \E id \in Ids : callCount[id] = 1

\* C13: startCall invoked while localStream.current is null leaves the
\* connection map, the connections, the channel map, the channels and the
\* pending calls as they were and sends no offer; hence an offer is pending
\* or was sent only after an acquisition has succeeded.
C13_NoStreamNoCall ==
  /\ [][(last'.op = "startCall" /\ localStream = 0) =>
          UNCHANGED <<pcKeys, signalingState, senders, pcMeta, constructed,
                      chans, dcKeys, dataChannels, tasks, netVars>>]_vars
  /\ [](\A id \in Ids :
          (offerOut[id] > 0 \/ BagIn(OfferTask(id), tasks)) => nStreams >= 1)

\* startCall was invoked for a participant without a stream while the
\* participant's connection and channel were tracked already
C13_Witness ==
  /\ last.op = "startCall"
  /\ ~last.ok
  /\ localStream = 0
  /\ Contains(pcKeys, last.id)
  /\ dataChannels[last.id] # 0

\* C14: user-disconnected(id) leaves the connection map, every connection
\* (its signaling state included), the channel map and the channels as they
\* were and takes id out of peersRef, keeping the other ids in their order;
\* a share fan-out calls nobody that is not in peersRef.
C14_DisconnectKeepsConnection ==
  /\ [][last'.op = "user-disconnected" =>
          /\ UNCHANGED <<connVars, netVars>>
          /\ ~Contains(peersRef', last'.id)
          /\ peersRef' = FilterSeq(peersRef, last'.id)]_vars
  /\ [][last'.op = "share-acquired" =>
          \A id \in Ids : ~Contains(peersRef, id) =>
             /\ callCount'[id] = callCount[id]
             /\ signalingState'[id] = signalingState[id]
             /\ dataChannels'[id] = dataChannels[id]]_vars

\* a participant whose connection carries our pending offer disconnected
C14_Witness ==
  /\ last.op = "user-disconnected"
  /\ Contains(pcKeys, last.id)
  /\ signalingState[last.id] = "have-local-offer"
  /\ dataChannels[last.id] # 0
  /\ ~Contains(peersRef, last.id)
  /\ peersRef # <<>>

\* (with two share requests, SpecRace) A was called and then left; the
\* fan-out of the later acquisition called B only, and the connection of A is
\* still tracked with its offer pending
C14_WitnessFanOut ==
  /\ last.op = "share-acquired"
  /\ nStreams = 2
  /\ last.ids = <<"B">>
  /\ callCount["A"] = 1
  /\ signalingState["A"] = "have-local-offer"

\* s is an initial part of t
IsPrefix(s, t) == Len(s) <= Len(t) /\ SubSeq(t, 1, Len(s)) = s

\* C15: a candidate whose sender is not a key of the connection map is
\* offered to the connections in map order: when the handler has returned it
\* has not thrown and addIceCandidate has settled on every connection that
\* was tracked when the candidate arrived (and on those added since),
\* whichever of them rejected it; a connection holds the candidate exactly
\* when its addIceCandidate succeeded; while the handler is under way it
\* awaits the connection that follows the ones already tried.
C15_CandidateTriedOnEveryConnection ==
  \A r \in 1..Len(iceRuns) :
    LET run == iceRuns[r] IN
    ~run.byId =>
      /\ ~run.thrown
      /\ IsPrefix(run.tried, pcKeys)
      /\ run.done => IsPrefix(run.keys0, run.tried)
      /\ ~run.done => run.at = pcKeys[Len(run.tried) + 1]
      /\ \A id \in Ids : r \in candidates[id] <=> id \in Range(run.tried) \ run.failed

\* a candidate without a resolvable sender was rejected by the first
\* connection of the map and taken by the second
C15_Witness ==
  \E r \in 1..Len(iceRuns) :
    /\ ~iceRuns[r].byId
    /\ iceRuns[r].done
    /\ Len(iceRuns[r].keys0) = 2
    /\ iceRuns[r].failed = {iceRuns[r].tried[1]}
    /\ r \in candidates[iceRuns[r].tried[2]]

\* the changes of signaling state of the caller path and of the callee path,
\* and the creation of a connection
SignalingPaths ==
  {<<"none", "stable">>,
   <<"stable", "have-local-offer">>, <<"have-local-offer", "stable">>,
   <<"stable", "have-remote-offer">>, <<"have-remote-offer", "stable">>}

\* C16: the signaling state of a connection changes only along
\* stable -> have-local-offer -> stable or stable -> have-remote-offer ->
\* stable.
C16_OnlyCallerAndCalleePaths ==
  [][\A id \in Ids :
       signalingState'[id] # signalingState[id] =>
         <<signalingState[id], signalingState'[id]>> \in SignalingPaths]_vars

\* C17: an answer that arrives without a sender id while several offers are
\* outstanding is applied to the connection of the participant that
\* produced it.
C17_AnswerGoesToItsConnection ==
  (last.op = "answer-applied" /\ last.ids[2] = "first") => last.id = last.ids[1]

\* positions of the file-meta frames among what a channel has sent
MetaPositions(out) == {i \in 1..Len(out) : out[i].t = "file-meta"}

\* the position of the file-meta frame that follows the one at i, or the
\* position after the last frame
NextMeta(out, i) ==
  LET later == {j \in MetaPositions(out) : j > i} IN
  IF later = {} THEN Len(out) + 1
  ELSE CHOOSE j \in later : \A k \in later : j <= k

\* the binary frames between positions i and j
BinsBetween(out, i, j) == SelectSeq(SubSeq(out, i + 1, j - 1), LAMBDA f : f.t = "bin")

\* C18: on every channel, the binary frames that follow a file-meta frame up
\* to the next file-meta frame are chunks of the file it announces, and when
\* the next file-meta frame is sent they are all of its chunks, in order.
C18_FramingKept ==
  \A c \in 1..Len(chans) :
    LET out == chans[c].out IN
    \A i \in MetaPositions(out) :
      LET j == NextMeta(out, i)
          bins == BinsBetween(out, i, j)
      IN /\ \A k \in 1..Len(bins) : bins[k].fid = out[i].fid
         /\ j <= Len(out) => WellChunked(bins, out[i].size)

\* C19: whatever the interleaving of share requests, media is acquired at
\* most once and the fan-out calls startCall at most once per participant.
C19_AcquiredAndFannedOutOnce ==
  /\ nStreams <= 1
  /\ \A id \in Ids : callCount[id] - ucCalls[id] <= 1

\* C20: while sharing, startCall has been invoked for every participant in
\* peersRef, after every handler.
C20_KnownPeersAreCalled ==
  isSharingRef => \A id \in Ids : Contains(peersRef, id) => callCount[id] >= 1

====
